---- MODULE Spec2Model ----
(***************************************************************************)
(* A model of the RAG worker of ai-gateway (src/worker): the in-memory     *)
(* VectorStore, the RAGPipeline built on it (chunking, indexing,           *)
(* retrieval, query) and the request handlers that share one pipeline.     *)
(*                                                                         *)
(* Python values are modelled as follows.                                  *)
(*   - a numpy vector is a sequence of integers; a cosine similarity is    *)
(*     kept exactly, as the reduced fraction sgn(d)*d^2 / (|q|^2 |v|^2),   *)
(*     which orders as the cosine itself does; 0/0 is NaN;                 *)
(*   - a dict is a function from its keys (strings) to its values;         *)
(*   - None is the record None below;                                      *)
(*   - the outcome of a call is Returned(value) or Raised(exception).      *)
(***************************************************************************)
EXTENDS Integers, Sequences, FiniteSets, TLC

VARIABLES
    vectors,      \* VectorStore.vectors: the list of stored embeddings
    documents,    \* VectorStore.documents: the list of stored dicts / None
    op,           \* the VectorStore call made last, with its arguments
    ret,          \* what that call returned (or raised)
    pre,          \* history: vectors and documents as they were before that call
    issued,       \* history: the ids add returned since the last clear, in order
    deleted       \* history: the ids delete(id) succeeded on since the last clear

storeVars == <<vectors, documents, op, ret, pre, issued, deleted>>

VARIABLES
    words,        \* _chunk_text: text.split(), the words of the text
    chunk_size,   \* _chunk_text: its chunk_size argument
    overlap,      \* _chunk_text: its overlap argument
    start,        \* _chunk_text: the loop variable start
    chunks,       \* _chunk_text: the list chunks built so far
    cpc           \* _chunk_text: "call", "loop" (at the while test) or "done"

chunkVars == <<words, chunk_size, overlap, start, chunks, cpc>>

VARIABLES
    reranker_loaded,  \* Reranker._loaded of the pipeline's reranker
    llm_model         \* RAGPipeline.llm_model: "LLMModel", or "None" if absent

pipelineVars == <<reranker_loaded, llm_model>>

VARIABLES
    files,        \* the file system: the archive np.savez wrote at a path, or NoFile
    fresh,        \* a second VectorStore: constructed empty, then load(path)
    saved         \* history: the path and the store of the last save that returned

persistVars == <<files, fresh, saved>>

VARIABLES
    request,      \* per request: the handler of routers/rag.py it is for
    hpc,          \* per request: where its handler stands
    running,      \* the requests whose handler has started and not yet returned
    seen          \* per search request: what search read of the two lists

handlerVars == <<request, hpc, running, seen>>

VARIABLES
    self_mode,        \* LLMModel.mode: settings.llm_mode as __init__ read it
    self_model,       \* LLMModel.model: the backend object, or None
    self_loaded,      \* LLMModel._loaded
    self_model_name,  \* LLMModel.model_name
    backend,          \* the process's environment: what loading the backend does
    llm_model_path    \* settings.llm_model_path, "None" if not configured

llmVars == <<self_mode, self_model, self_loaded, self_model_name, backend, llm_model_path>>

vars == <<storeVars, chunkVars, pipelineVars, persistVars, handlerVars, llmVars>>

\* what a step of one component leaves alone
notStore == <<chunkVars, pipelineVars, persistVars, handlerVars, llmVars>>
notChunk == <<storeVars, pipelineVars, persistVars, handlerVars, llmVars>>
callRecord == <<op, ret, pre, issued, deleted>>

----------------------------------------------------------------------------
(* Bounds of the model *)

Dim == 2          \* the dimension the VectorStore is constructed with
MaxSlots == 3     \* no add beyond this many slots
MaxTopK == 3      \* search is called with top_k in 1..MaxTopK
MaxQueryTopK == 2 \* retrieve and query are called with top_k in 1..MaxQueryTopK
MaxBatch == 2     \* add_batch is called with lists of at most this length
MaxWords == 25    \* texts of the chunker have at most this many words
MaxChunkSize == 10 \* the chunker is called with chunk_size in 1..MaxChunkSize
MaxOverlap == 11  \* and with overlap in 0..MaxOverlap
MaxChunks == 30   \* a chunking loop is followed for at most this many chunks
MaxIndexed == 2   \* index_documents fills the store up to this many slots
MaxPersisted == 2 \* the stores that are saved have at most this many slots
NumRequests == 3  \* the requests that are in flight together
MaxLines == 3     \* the generation capability answers expand with this many lines at most
MaxExpansions == 2 \* expand is called with num_expansions in 1..MaxExpansions
MaxDocs == 3      \* rerank is called with at most this many documents
MaxCompressed == 2 \* compress is called with at most this many documents
MaxMessages == 2   \* generate is called with at most this many messages
MaxSentences == 2 \* and with max_sentences_per_doc in 1..MaxSentences

----------------------------------------------------------------------------
(* Python values *)

None == [none |-> TRUE]

\* the outcome of a call: the value it returned, or the exception it raised
Returned(v) == [raised |-> "no", value |-> v]
Raised(e) == [raised |-> e, value |-> None]

\* {**base, **over}: the keys of both, over's value where both have the key
DictMerge(base, over) ==
    [k \in (DOMAIN base) \cup (DOMAIN over) |->
        IF k \in DOMAIN over THEN over[k] ELSE base[k]]

\* dict.get(key, default)
DictGet(d, key, default) == IF key \in DOMAIN d THEN d[key] ELSE default

\* list[:n] for n >= 0
Take(s, n) == SubSeq(s, 1, IF n < Len(s) THEN n ELSE Len(s))

\* list[a:b], a negative index counting from the end
SliceIndex(i, n) == IF i < 0 THEN (IF i + n < 0 THEN 0 ELSE i + n)
                    ELSE (IF i > n THEN n ELSE i)
Slice(s, a, b) == SubSeq(s, SliceIndex(a, Len(s)) + 1, SliceIndex(b, Len(s)))

Reverse(s) == [i \in 1..Len(s) |-> s[Len(s) + 1 - i]]

RECURSIVE SumTo(_, _)
SumTo(f, n) == IF n = 0 THEN 0 ELSE f[n] + SumTo(f, n - 1)

\* np.dot of two vectors of one length
Dot(a, b) == SumTo([i \in 1..Len(a) |-> a[i] * b[i]], Len(a))

RECURSIVE Gcd(_, _)
Gcd(a, b) == IF b = 0 THEN a ELSE Gcd(b, a % b)

NaN == [nan |-> TRUE, num |-> 0, den |-> 1]

\* the vectors of the model: unit vectors, the all-ones vector, the zero
\* vector np.zeros(dimension), and a vector one component too long
E1 == [i \in 1..Dim |-> IF i = 1 THEN 1 ELSE 0]
E2 == [i \in 1..Dim |-> IF i = 2 THEN 1 ELSE 0]
Ones == [i \in 1..Dim |-> 1]
Zeros == [i \in 1..Dim |-> 0]
TooLong == [i \in 1..(Dim + 1) |-> 1]

----------------------------------------------------------------------------
(* list.sort(key=..., reverse=True) as CPython runs it on a list shorter   *)
(* than 64 items: the list is reversed, the leading run is found           *)
(* (count_run) and reversed if it descends, the remaining items are put in *)
(* place by binary insertion (binarysort), and the list is reversed again. *)
(* The sort works on [key, value] pairs, the keys computed beforehand; the *)
(* keys are floats compared with <, which is false whenever one is NaN.    *)

\* a float with an integer value
Float(n) == [nan |-> FALSE, num |-> n, den |-> 1]

\* a < b on floats
FloatLT(a, b) ==
    /\ ~a.nan
    /\ ~b.nan
    /\ a.num * b.den < b.num * a.den

\* the comparison of two items of the list being sorted, by their keys
ScoreLT(x, y) == FloatLT(x.key, y.key)

\* count_run: the length of the run that starts the list, n items known so far
RECURSIVE RunLen(_, _, _)
RunLen(s, descending, n) ==
    IF n = Len(s) THEN n
    ELSE IF ScoreLT(s[n + 1], s[n]) = descending
         THEN RunLen(s, descending, n + 1)
         ELSE n

\* binarysort's search for the place of pivot in the sorted prefix s[l..r-1]
RECURSIVE BinPos(_, _, _, _)
BinPos(s, pivot, l, r) ==
    IF l >= r THEN l
    ELSE LET p == l + ((r - l) \div 2)
         IN  IF ScoreLT(pivot, s[p])
             THEN BinPos(s, pivot, l, p)
             ELSE BinPos(s, pivot, p + 1, r)

\* binarysort: s[1..st-1] is sorted, s[st..] is inserted item by item
RECURSIVE BinarySort(_, _)
BinarySort(s, st) ==
    IF st > Len(s) THEN s
    ELSE LET pivot == s[st]
             l == BinPos(s, pivot, 1, st)
             moved == SubSeq(s, 1, l - 1) \o <<pivot>> \o SubSeq(s, l, st - 1)
                      \o SubSeq(s, st + 1, Len(s))
         IN  BinarySort(moved, st + 1)

\* the forward (ascending, stable) sort of a short list
ListSortAscending(s) ==
    IF Len(s) < 2 THEN s
    ELSE LET descending == ScoreLT(s[2], s[1])
             n == RunLen(s, descending, 2)
             run == IF descending
                    THEN Reverse(SubSeq(s, 1, n)) \o SubSeq(s, n + 1, Len(s))
                    ELSE s
         IN  BinarySort(run, n + 1)

\* list.sort(key=Key, reverse=True) and sorted(list, key=Key, reverse=True)
SortReverse(s, Key(_)) ==
    LET keyed == [i \in 1..Len(s) |-> [key |-> Key(s[i]), value |-> s[i]]]
        sorted == Reverse(ListSortAscending(Reverse(keyed)))
    IN  [i \in 1..Len(s) |-> sorted[i].value]

\* similarities.sort(key=lambda x: x[1], reverse=True)
SimilarityKey(x) == x.score
SortBySimilarity(s) == SortReverse(s, SimilarityKey)

----------------------------------------------------------------------------
(* VectorStore (src/worker/rag/vector_store.py). A store is the record     *)
(* [vectors, documents] of its two lists.                                  *)

EmptyStore == [vectors |-> <<>>, documents |-> <<>>]

\* float(np.dot(q / norm(q), vec / norm(vec))) for vectors of one length
CosineSimilarity(q, vec) ==
    LET d == Dot(q, vec)
        n == Dot(q, q) * Dot(vec, vec)
    IN  IF n = 0 THEN NaN
        ELSE LET g == Gcd(d * d, n)
             IN  [nan |-> FALSE,
                  num |-> (IF d < 0 THEN 0 - (d * d) ELSE d * d) \div g,
                  den |-> n \div g]

\* a count of all the slots, tombstones included
count_allSlots(vs) == Len(vs.documents)

\* VectorStore.count
count(vs) == Cardinality({i \in 1..Len(vs.documents) : vs.documents[i] # None})

\* a doc_id taken from the number of live documents, which shrinks on delete
NewDocId_fromCount(vs) == count(vs)

\* doc_id = len(self.vectors)
NewDocId(vs) == Len(vs.vectors)

\* VectorStore.add
add(vs, embedding, document) ==
    LET doc_id == NewDocId(vs)
    IN  [vs |-> [vectors |-> Append(vs.vectors, embedding),
                 documents |-> Append(vs.documents,
                                      DictMerge([id |-> doc_id], document))],
         ret |-> doc_id]

\* VectorStore.add_batch: add over zip(embeddings, documents)
RECURSIVE add_batch_from(_, _, _, _, _)
add_batch_from(vs, embeddings, docs, i, ids) ==
    IF i > Len(embeddings) \/ i > Len(docs)
    THEN [vs |-> vs, ret |-> ids]
    ELSE LET one == add(vs, embeddings[i], docs[i])
         IN  add_batch_from(one.vs, embeddings, docs, i + 1,
                            Append(ids, one.ret))

add_batch(vs, embeddings, docs) ==
    add_batch_from(vs, embeddings, docs, 1, <<>>)

\* the list similarities of VectorStore.search before it is sorted
Similarities(vs, query_embedding) ==
    [i \in 1..Len(vs.vectors) |->
        [id |-> i - 1,
         score |-> CosineSimilarity(query_embedding, vs.vectors[i]),
         doc |-> vs.documents[i]]]

\* VectorStore.search; np.dot raises ValueError on vectors of two lengths,
\* self.documents[i] raises IndexError past the end of documents
search(vs, query_embedding, top_k) ==
    IF vs.vectors = <<>> THEN Returned(<<>>)
    ELSE IF \E i \in 1..Len(vs.vectors) :
                Len(vs.vectors[i]) # Len(query_embedding)
         THEN Raised("ValueError")
    ELSE IF Len(vs.documents) < Len(vs.vectors) THEN Raised("IndexError")
    ELSE Returned(Take(SortBySimilarity(Similarities(vs, query_embedding)),
                       top_k))

\* a delete that refuses a slot it has already tombstoned
delete_onceOnly(vs, doc_id) ==
    IF 0 <= doc_id /\ doc_id < Len(vs.documents)
          /\ vs.documents[doc_id + 1] # None
    THEN [vs |-> [vectors |-> [vs.vectors EXCEPT ![doc_id + 1] = Zeros],
                  documents |-> [vs.documents EXCEPT ![doc_id + 1] = None]],
          ret |-> TRUE]
    ELSE [vs |-> vs, ret |-> FALSE]

\* VectorStore.delete
delete(vs, doc_id) ==
    IF 0 <= doc_id /\ doc_id < Len(vs.documents)
    THEN [vs |-> [vectors |-> [vs.vectors EXCEPT ![doc_id + 1] = Zeros],
                  documents |-> [vs.documents EXCEPT ![doc_id + 1] = None]],
          ret |-> TRUE]
    ELSE [vs |-> vs, ret |-> FALSE]

\* a clear that tombstones every slot and keeps the slots
clear_keepsSlots(vs) ==
    [vectors |-> [i \in 1..Len(vs.vectors) |-> Zeros],
     documents |-> [i \in 1..Len(vs.documents) |-> None]]

\* VectorStore.clear
clear(vs) == EmptyStore

----------------------------------------------------------------------------
(* The calls made on one VectorStore, one action per method call.          *)

Store == [vectors |-> vectors, documents |-> documents]

\* what callers pass in
AddVectors == {E1, E2, Ones, TooLong}
AddDocuments == {[content |-> "a"], [id |-> 7, content |-> "b"]}
BatchVectors == {E1, Ones}
BatchDocuments == {[content |-> "a"]}
Queries == {E1, Ones}
SeqsUpTo(S, n) == UNION {[1..m -> S] : m \in 0..n}
Min(a, b) == IF a < b THEN a ELSE b

\* op, ret and pre record one call at a time: a call is made when no call is
\* on record, and Forget takes the finished call off the record. The calls
\* that can follow one another are the same with and without this step.
NoCall == op.name = "idle"

StoreInit ==
    /\ vectors = <<>>
    /\ documents = <<>>
    /\ op = [name |-> "idle"]
    /\ ret = Returned(None)
    /\ pre = EmptyStore
    /\ issued = <<>>
    /\ deleted = {}

Add(embedding, document) ==
    /\ NoCall
    /\ Len(vectors) < MaxSlots
    /\ LET r == add(Store, embedding, document)
       IN  /\ vectors' = r.vs.vectors
           /\ documents' = r.vs.documents
           /\ ret' = Returned(r.ret)
           /\ issued' = Append(issued, r.ret)
    /\ op' = [name |-> "add", embedding |-> embedding, document |-> document]
    /\ pre' = Store
    /\ UNCHANGED <<deleted, notStore>>

AddBatch(embeddings, docs) ==
    /\ NoCall
    /\ Len(vectors) + Min(Len(embeddings), Len(docs)) <= MaxSlots
    /\ LET r == add_batch(Store, embeddings, docs)
       IN  /\ vectors' = r.vs.vectors
           /\ documents' = r.vs.documents
           /\ ret' = Returned(r.ret)
           /\ issued' = issued \o r.ret
    /\ op' = [name |-> "add_batch", embeddings |-> embeddings, documents |-> docs]
    /\ pre' = Store
    /\ UNCHANGED <<deleted, notStore>>

Delete(doc_id) ==
    /\ NoCall
    /\ LET r == delete(Store, doc_id)
       IN  /\ vectors' = r.vs.vectors
           /\ documents' = r.vs.documents
           /\ ret' = Returned(r.ret)
           /\ deleted' = IF r.ret THEN deleted \cup {doc_id} ELSE deleted
    /\ op' = [name |-> "delete", doc_id |-> doc_id]
    /\ pre' = Store
    /\ UNCHANGED <<issued, notStore>>

Clear ==
    /\ NoCall
    /\ vectors' = clear(Store).vectors
    /\ documents' = clear(Store).documents
    /\ ret' = Returned(None)
    /\ op' = [name |-> "clear"]
    /\ pre' = Store
    /\ issued' = <<>>
    /\ deleted' = {}
    /\ UNCHANGED notStore

Search(query_embedding, top_k) ==
    /\ NoCall
    /\ ret' = search(Store, query_embedding, top_k)
    /\ op' = [name |-> "search", query_embedding |-> query_embedding,
              top_k |-> top_k]
    /\ pre' = Store
    /\ UNCHANGED <<vectors, documents, issued, deleted, notStore>>

Count ==
    /\ NoCall
    /\ ret' = Returned(count(Store))
    /\ op' = [name |-> "count"]
    /\ pre' = Store
    /\ UNCHANGED <<vectors, documents, issued, deleted, notStore>>

Forget ==
    /\ ~NoCall
    /\ op' = [name |-> "idle"]
    /\ ret' = Returned(None)
    /\ pre' = Store
    /\ UNCHANGED <<vectors, documents, issued, deleted, notStore>>

StoreNext ==
    \/ \E embedding \in AddVectors, document \in AddDocuments :
            Add(embedding, document)
    \/ \E embeddings \in SeqsUpTo(BatchVectors, MaxBatch),
          docs \in SeqsUpTo(BatchDocuments, MaxBatch) :
            AddBatch(embeddings, docs)
    \/ \E doc_id \in (0 - 1)..MaxSlots : Delete(doc_id)
    \/ Clear
    \/ \E query_embedding \in Queries, top_k \in 1..MaxTopK :
            Search(query_embedding, top_k)
    \/ Count
    \/ Forget

(* RAGPipeline._chunk_text (src/worker/rag/pipeline.py), followed one loop *)
(* iteration at a time. A text is the sequence of its words, a chunk the   *)
(* sequence of the words joined into it.                                   *)

\* the request fields of IndexRequest (src/worker/routers/rag.py)
ChunkSizeGe == 100
ChunkSizeLe == 2000
ChunkOverlapGe == 0
ChunkOverlapLe == 200
IndexRequestValid(size, ov) ==
    /\ ChunkSizeGe <= size /\ size <= ChunkSizeLe
    /\ ChunkOverlapGe <= ov /\ ov <= ChunkOverlapLe

\* a text of n words
Text(n) == [i \in 1..n |-> i]

\* the calls of the model: every small text and setting, and one request the
\* router accepts, whose overlap is its chunk_size
ChunkCalls ==
    [n : 0..MaxWords, chunk_size : 1..MaxChunkSize, overlap : 0..MaxOverlap]
    \cup {c \in {[n |-> ChunkSizeGe + 1, chunk_size |-> ChunkSizeGe,
                  overlap |-> ChunkSizeGe]} :
            IndexRequestValid(c.chunk_size, c.overlap)}

ChunkInit ==
    \E c \in ChunkCalls :
        /\ words = Text(c.n)
        /\ chunk_size = c.chunk_size
        /\ overlap = c.overlap
        /\ start = 0
        /\ chunks = <<>>
        /\ cpc = "call"

\* a loop that steps by chunk_size, the overlap forgotten
NextStart_noOverlap(st, size, ov) == st + size

\* the next value of start: start = end - overlap, where end = start + chunk_size
NextStart(st, size, ov) == (st + size) - ov

\* " ".join(words[start:end])
Window(w, st, size) == Slice(w, st, st + size)

\* lines 207-213: a text of at most chunk_size words is returned whole
ChunkCall ==
    /\ cpc = "call"
    /\ IF Len(words) <= chunk_size
       THEN chunks' = <<words>> /\ cpc' = "done"
       ELSE chunks' = <<>> /\ cpc' = "loop"
    /\ start' = 0
    /\ UNCHANGED <<words, chunk_size, overlap, notChunk>>

\* lines 214-218: one iteration of the while loop
ChunkIterate ==
    /\ cpc = "loop"
    /\ start < Len(words)
    /\ Len(chunks) < MaxChunks
    /\ chunks' = Append(chunks, Window(words, start, chunk_size))
    /\ start' = NextStart(start, chunk_size, overlap)
    /\ UNCHANGED <<words, chunk_size, overlap, cpc, notChunk>>

\* line 220: the loop test fails and chunks is returned
ChunkReturn ==
    /\ cpc = "loop"
    /\ ~(start < Len(words))
    /\ cpc' = "done"
    /\ UNCHANGED <<words, chunk_size, overlap, start, chunks, notChunk>>

ChunkNext == ChunkCall \/ ChunkIterate \/ ChunkReturn

\* the chunker at rest, in the specifications that do not run it
ChunkIdle ==
    /\ words = <<>>
    /\ chunk_size = 1
    /\ overlap = 0
    /\ start = 0
    /\ chunks = <<>>
    /\ cpc = "idle"

----------------------------------------------------------------------------
(* Texts of the pipeline. A text is the sequence of its whitespace-separated *)
(* words; a word is [w, dots]: its letters and the number of full stops that *)
(* end it, so that the delimiter ". " is a word with dots > 0 that is not    *)
(* the last word of the text.                                                *)

W(w) == [w |-> w, dots |-> 0]
Wd(w) == [w |-> w, dots |-> 1]

\* the embedding capability: a deterministic stand-in that maps a text to a
\* vector of the store's dimension by its first word
encode(text) ==
    IF text = <<>> THEN E1
    ELSE CASE text[1].w = "a" -> E1
           [] text[1].w = "b" -> E2
           [] OTHER -> Ones

\* RAGPipeline._chunk_text as a function, for the settings on which its loop
\* ends (overlap < chunk_size)
RECURSIVE chunk_loop(_, _, _, _, _)
chunk_loop(w, size, ov, st, acc) ==
    IF ~(st < Len(w)) THEN acc
    ELSE chunk_loop(w, size, ov, NextStart(st, size, ov),
                    Append(acc, Window(w, st, size)))

chunk_text(w, size, ov) ==
    IF Len(w) <= size THEN <<w>> ELSE chunk_loop(w, size, ov, 0, <<>>)

----------------------------------------------------------------------------
(* RAGPipeline.index_documents (src/worker/rag/pipeline.py)                *)

\* lines 51-73 for one document: the (embedding input, stored dict) pairs of
\* its chunks, in order
DocChunks(doc, size, ov) ==
    LET content == DictGet(doc, "content", <<>>)
        metadata == DictGet(doc, "metadata", <<>>)
        cs == chunk_text(content, size, ov)
    IN  [i \in 1..Len(cs) |->
            [content |-> cs[i],
             metadata |-> DictMerge(metadata, [chunk_index |-> i - 1])]]

RECURSIVE AllChunks(_, _, _)
AllChunks(docs, size, ov) ==
    IF docs = <<>> THEN <<>>
    ELSE DocChunks(Head(docs), size, ov) \o AllChunks(Tail(docs), size, ov)

\* the inserts of index_documents from the i-th chunk on; the encode call
\* number failAt raises (0: none does), and the exception leaves the method
RECURSIVE index_from(_, _, _, _, _)
index_from(vs, cs, i, indexed, failAt) ==
    IF i > Len(cs) THEN [vs |-> vs, ret |-> Returned(indexed)]
    ELSE IF i = failAt THEN [vs |-> vs, ret |-> Raised("CapabilityFailure")]
    ELSE index_from(add(vs, encode(cs[i].content), cs[i]).vs, cs, i + 1,
                    indexed + 1, failAt)

index_documents(vs, docs, size, ov, failAt) ==
    index_from(vs, AllChunks(docs, size, ov), 1, 0, failAt)

\* the handler of POST /rag/index (src/worker/routers/rag.py): the count in
\* a success body, or HTTP 500 on any exception
index_documents_endpoint(outcome, total) ==
    IF outcome.raised = "no"
    THEN [status |-> 200, indexed_chunks |-> outcome.value,
          total_documents |-> total]
    ELSE [status |-> 500, detail |-> "Failed to index documents"]

----------------------------------------------------------------------------
(* Splitting and joining on ". " (str.split, str.join)                     *)

\* the index of the word that ends with the first ". " of the text, or 0
DelimAt(text) ==
    LET S == {i \in 1..(Len(text) - 1) : text[i].dots > 0}
    IN  IF S = {} THEN 0 ELSE CHOOSE i \in S : \A j \in S : i <= j

\* '. ' in text
HasDelim(text) == DelimAt(text) # 0

\* text.split('. ', 1)[0] and [-1] of a text that holds ". "
BeforeDelim(text) ==
    LET i == DelimAt(text)
    IN  [SubSeq(text, 1, i) EXCEPT ![i].dots = @ - 1]
AfterDelim(text) == SubSeq(text, DelimAt(text) + 1, Len(text))

\* text.split('. ')
RECURSIVE SplitSentences(_)
SplitSentences(text) ==
    IF ~HasDelim(text) THEN <<text>>
    ELSE <<BeforeDelim(text)>> \o SplitSentences(AfterDelim(text))

\* ". ".join(sentences)
AddDot(text) ==
    IF text = <<>> THEN <<[w |-> "", dots |-> 1]>>
    ELSE [text EXCEPT ![Len(text)].dots = @ + 1]
RECURSIVE JoinSentences(_)
JoinSentences(sentences) ==
    IF sentences = <<>> THEN <<>>
    ELSE IF Len(sentences) = 1 THEN sentences[1]
    ELSE AddDot(sentences[1]) \o JoinSentences(Tail(sentences))

\* a list left with its repeated items
Dedupe_keepAll(s) == s

\* list(dict.fromkeys(s)): the first occurrence of each item, in order
RECURSIVE Dedupe(_)
Dedupe(s) ==
    IF s = <<>> THEN <<>>
    ELSE LET front == Dedupe(SubSeq(s, 1, Len(s) - 1))
             last == s[Len(s)]
         IN  IF \E i \in 1..Len(front) : front[i] = last
             THEN front ELSE Append(front, last)

----------------------------------------------------------------------------
(* QueryExpansion.expand (src/worker/rag/query_expansion.py). llm is the   *)
(* pipeline's llm_model ("None" when absent); response is the outcome of   *)
(* its generate call, the content given as the list of its lines.          *)

RECURSIVE ParseLines(_)
ParseLines(lines) ==
    IF lines = <<>> THEN <<>>
    ELSE (IF HasDelim(Head(lines)) THEN <<AfterDelim(Head(lines))>> ELSE <<>>)
         \o ParseLines(Tail(lines))

\* an expand without its fallback: a failed call leaves it with no query
expand_noFallback(llm, q, response) ==
    IF llm = "None" THEN <<>>
    ELSE IF response.raised # "no" THEN <<>>
    ELSE Dedupe(<<q>> \o ParseLines(response.value))

expand(llm, q, response) ==
    IF llm = "None" THEN <<q>>
    ELSE IF response.raised # "no" THEN <<q>>
    ELSE Dedupe(<<q>> \o ParseLines(response.value))

----------------------------------------------------------------------------
(* Reranker.rerank (src/worker/rag/reranker.py)                            *)

\* the pairwise scoring capability model.predict: a deterministic stand-in
\* that scores a passage by its first word, higher when the query starts
\* with the same word
Relevance(w) == CASE w = "a" -> 1 [] w = "b" -> 2 [] OTHER -> 0
predict(q, passage) ==
    IF passage = <<>> THEN 0
    ELSE Relevance(passage[1].w)
         + (IF q # <<>> /\ q[1].w = passage[1].w THEN 2 ELSE 0)

RerankKey(doc) == doc.rerank_score

\* a rerank that scores whether or not the scorer is loaded
rerank_alwaysScores(loaded, q, docs, top_k) ==
    LET scored == [i \in 1..Len(docs) |->
                      DictMerge(docs[i],
                          [rerank_score |-> Float(predict(q, docs[i].content))])]
    IN  Take(SortReverse(scored, RerankKey), top_k)

\* a rerank that scores and does not sort
rerank_unsorted(loaded, q, docs, top_k) ==
    IF ~loaded \/ docs = <<>> THEN Take(docs, top_k)
    ELSE Take([i \in 1..Len(docs) |->
                  DictMerge(docs[i],
                      [rerank_score |-> Float(predict(q, docs[i].content))])],
              top_k)

rerank(loaded, q, docs, top_k) ==
    IF ~loaded \/ docs = <<>> THEN Take(docs, top_k)
    ELSE LET scored == [i \in 1..Len(docs) |->
                           DictMerge(docs[i],
                               [rerank_score |-> Float(predict(q, docs[i].content))])]
         IN  Take(SortReverse(scored, RerankKey), top_k)

----------------------------------------------------------------------------
(* RAGPipeline.retrieve (src/worker/rag/pipeline.py)                       *)

\* top_k * 5
InitialK(top_k) == top_k * 5

\* a merge that keeps the slots search reports as deleted
RECURSIVE MergeResults_keepsDeleted(_, _)
MergeResults_keepsDeleted(retrieved_docs, results) ==
    IF results = <<>> THEN retrieved_docs
    ELSE LET r == Head(results)
             known == \E i \in 1..Len(retrieved_docs) :
                          retrieved_docs[i].id = r.id
         IN  MergeResults_keepsDeleted(
                 IF known THEN retrieved_docs
                 ELSE Append(retrieved_docs,
                             [id |-> r.id,
                              content |-> DictGet(r.doc, "content", <<>>),
                              score |-> r.score,
                              metadata |-> DictGet(r.doc, "metadata", <<>>)]),
                 Tail(results))

\* a merge in which the result of a later query replaces the one kept
RECURSIVE MergeResults_lastWins(_, _)
MergeResults_lastWins(retrieved_docs, results) ==
    IF results = <<>> THEN retrieved_docs
    ELSE LET r == Head(results)
             known == \E i \in 1..Len(retrieved_docs) :
                          retrieved_docs[i].id = r.id
             entry == [id |-> r.id,
                       content |-> DictGet(r.doc, "content", <<>>),
                       score |-> r.score,
                       metadata |-> DictGet(r.doc, "metadata", <<>>)]
         IN  MergeResults_lastWins(
                 IF r.doc = None THEN retrieved_docs
                 ELSE IF known
                 THEN [i \in 1..Len(retrieved_docs) |->
                          IF retrieved_docs[i].id = r.id THEN entry
                          ELSE retrieved_docs[i]]
                 ELSE Append(retrieved_docs, entry),
                 Tail(results))

\* lines 99-106: the results of one search merged into retrieved_docs, a dict
\* kept as the list of its values in insertion order
RECURSIVE MergeResults(_, _)
MergeResults(retrieved_docs, results) ==
    IF results = <<>> THEN retrieved_docs
    ELSE LET r == Head(results)
             known == \E i \in 1..Len(retrieved_docs) :
                          retrieved_docs[i].id = r.id
             entry == [id |-> r.id,
                       content |-> DictGet(r.doc, "content", <<>>),
                       score |-> r.score,
                       metadata |-> DictGet(r.doc, "metadata", <<>>)]
         IN  MergeResults(IF ~known /\ r.doc # None
                          THEN Append(retrieved_docs, entry)
                          ELSE retrieved_docs,
                          Tail(results))

\* lines 96-106: the loop over the expanded queries; a search that raises
\* ends retrieve with its exception
RECURSIVE RetrieveLoop(_, _, _, _)
RetrieveLoop(vs, queries, initial_k, retrieved_docs) ==
    IF queries = <<>> THEN Returned(retrieved_docs)
    ELSE LET results == search(vs, encode(Head(queries)), initial_k)
         IN  IF results.raised # "no" THEN results
             ELSE RetrieveLoop(vs, Tail(queries), initial_k,
                               MergeResults(retrieved_docs, results.value))

retrieve(vs, loaded, llm, q, top_k, response) ==
    LET expanded_queries == expand(llm, q, response)
        all_docs == RetrieveLoop(vs, expanded_queries, InitialK(top_k), <<>>)
    IN  IF all_docs.raised # "no" THEN all_docs
        ELSE Returned(rerank(loaded, q, all_docs.value, top_k))

----------------------------------------------------------------------------
(* ContextCompressor.compress (src/worker/rag/context_compressor.py)       *)

MaxSentencesPerDoc == 3

SentenceKey(x) == Float(x.score)

\* the first sentences of a content as they stand, not the best ones
TopSentences_inOrder(q, content, max_sentences_per_doc) ==
    Take(SplitSentences(content), max_sentences_per_doc)

\* lines 37-51: the sentences of a content kept by compress, best first
TopSentences(q, content, max_sentences_per_doc) ==
    LET sentences == SplitSentences(content)
        scored_sentences ==
            [i \in 1..Len(sentences) |->
                [sentence |-> sentences[i], score |-> predict(q, sentences[i])]]
        sorted == SortReverse(scored_sentences, SentenceKey)
        top == Take(sorted, max_sentences_per_doc)
    IN  [i \in 1..Len(top) |-> top[i].sentence]

\* lines 32-58 for one document: <<>> if it is skipped, else <<new_doc>>
CompressDoc(q, doc, max_sentences_per_doc) ==
    LET content == DictGet(doc, "content", <<>>)
    IN  IF content = <<>> THEN <<>>
        ELSE <<DictMerge(doc,
                  [content |-> JoinSentences(
                      TopSentences(q, content, max_sentences_per_doc))])>>

\* a compress that writes the new content into the caller's dict
CallerDocAfter_inPlace(doc, new_doc) == IF new_doc = <<>> THEN doc ELSE new_doc[1]

\* line 54, new_doc = doc.copy(): the dict the caller passed stays as it was
CallerDocAfter(doc, new_doc) == doc

RECURSIVE CompressDocs(_, _, _)
CompressDocs(q, docs, max_sentences_per_doc) ==
    IF docs = <<>> THEN <<>>
    ELSE CompressDoc(q, Head(docs), max_sentences_per_doc)
         \o CompressDocs(q, Tail(docs), max_sentences_per_doc)

\* compress: ret is the list it returns, docs the caller's list afterwards
compress(loaded, q, docs, max_sentences_per_doc) ==
    IF ~loaded THEN [ret |-> docs, docs |-> docs]
    ELSE [ret |-> CompressDocs(q, docs, max_sentences_per_doc),
          docs |-> [i \in 1..Len(docs) |->
                      CallerDocAfter(docs[i],
                          CompressDoc(q, docs[i], max_sentences_per_doc))]]

----------------------------------------------------------------------------
(* FactChecker.check. rag/fact_checker.py is not among the sources; the    *)
(* operator follows the specification (4.7, 7): the verdict is the         *)
(* generation capability's judgment, and a capability that is unavailable  *)
(* or raises gives the verdict "unavailable", never an exception.          *)

Verdicts == {"supported", "contradicted", "insufficient"}

check(answer, docs, judgment) ==
    Returned([verdict |-> IF judgment \in Verdicts THEN judgment
                          ELSE "unavailable"])

----------------------------------------------------------------------------
(* RAGPipeline.query (src/worker/rag/pipeline.py). expansion, generation   *)
(* and judgment are what the generation capability answers to the three    *)
(* calls made on it.                                                       *)

\* a query that skips the fact check whatever the flag
FactCheckResult_skipped(use_fact_checking, answer, context, judgment) ==
    Returned(None)

\* lines 183-185: the optional fact check of the answer
FactCheckResult(use_fact_checking, answer, context, judgment) ==
    IF use_fact_checking THEN check(answer, context, judgment)
    ELSE Returned(None)

query(vs, loaded, llm, q, top_k, use_compression, use_fact_checking, expansion, generation, judgment) ==
    LET sources == retrieve(vs, loaded, llm, q, top_k, expansion)
    IN  IF sources.raised # "no" THEN sources
        ELSE
        LET compressed == IF use_compression
                          THEN compress(loaded, q, sources.value,
                                        MaxSentencesPerDoc)
                          ELSE [ret |-> sources.value, docs |-> sources.value]
            context_for_generation == compressed.ret
            response == IF llm = "None" THEN Raised("AttributeError")
                        ELSE generation
        IN  IF response.raised # "no" THEN response
            ELSE
            LET answer == response.value.content
                fact_check_result ==
                    FactCheckResult(use_fact_checking, answer,
                                    context_for_generation, judgment)
            IN  IF fact_check_result.raised # "no" THEN fact_check_result
                ELSE Returned([answer |-> answer,
                               sources |-> compressed.docs,
                               model |-> response.value.model,
                               fact_check |-> fact_check_result.value])

\* a query that fact-checks before it generates
QueryStages_checkFirst(use_compression, use_fact_checking) ==
    <<"retrieve">>
        \o (IF use_compression THEN <<"compress">> ELSE <<>>)
        \o (IF use_fact_checking THEN <<"fact_check">> ELSE <<>>)
        \o <<"generate", "assemble">>

\* lines 139-192: the statements of query in program order, each named by
\* the component it calls; the return statement is "assemble"
QueryStages(use_compression, use_fact_checking) ==
    <<"retrieve">>
        \o (IF use_compression THEN <<"compress">> ELSE <<>>)
        \o <<"generate">>
        \o (IF use_fact_checking THEN <<"fact_check">> ELSE <<>>)
        \o <<"assemble">>

\* the statement of query named stage raises; compress and the return
\* statement raise nothing
StageRaises(stage, vs, loaded, llm, q, top_k, use_fact_checking, expansion, generation, judgment) ==
    LET response == IF llm = "None" THEN Raised("AttributeError")
                    ELSE generation
        answer == IF response.raised = "no" THEN response.value.content
                  ELSE <<>>
    IN  CASE stage = "retrieve" ->
                 retrieve(vs, loaded, llm, q, top_k, expansion).raised # "no"
          [] stage = "generate" -> response.raised # "no"
          [] stage = "fact_check" ->
                 FactCheckResult(use_fact_checking, answer, <<>>,
                                 judgment).raised # "no"
          [] OTHER -> FALSE

\* the statements one call of query enters: program order up to and
\* including the first one that raises
query_stages(vs, loaded, llm, q, top_k, use_compression, use_fact_checking, expansion, generation, judgment) ==
    LET order == QueryStages(use_compression, use_fact_checking)
        raising == {i \in 1..Len(order) :
                       StageRaises(order[i], vs, loaded, llm, q, top_k,
                                   use_fact_checking, expansion, generation,
                                   judgment)}
    IN  IF raising = {} THEN order
        ELSE SubSeq(order, 1,
                    CHOOSE i \in raising : \A j \in raising : i <= j)

----------------------------------------------------------------------------
(* The calls made on one RAGPipeline, one action per method call.          *)

\* what callers pass in, and what the capabilities answer
IndexTexts == {<<>>, <<Wd("a"), W("b")>>, <<W("b"), W("c")>>}
IndexMetadata == {[source |-> "s", chunk_index |-> 9]}
IndexDocs ==
    {[content |-> t, metadata |-> md] : t \in IndexTexts, md \in IndexMetadata}
QueryTexts == {<<W("a")>>, <<W("b")>>}
ChunkSettings ==
    {[chunk_size |-> 1, overlap |-> 0], [chunk_size |-> 2, overlap |-> 1]}
Expansions ==
    {Raised("CapabilityFailure"),
     Returned(<<>>),
     Returned(<< <<W("none")>>, <<Wd("1"), W("b")>>, <<Wd("2"), W("a")>>,
                 <<Wd("3"), W("b")>> >>)}
Generations ==
    {Raised("CapabilityFailure"),
     Returned([content |-> <<W("answer")>>, model |-> "mock-llm"])}
Judgments == {"supported", "raises", "unavailable"}

\* the answers that are asked for: expand and query call generate only on an
\* llm_model that is there, and the fact check follows a generated answer
NotCalled == Raised("not called")
ExpansionsFor(llm) == IF llm = "None" THEN {NotCalled} ELSE Expansions
GenerationsFor(llm) == IF llm = "None" THEN {NotCalled} ELSE Generations
JudgmentsFor(use_fact_checking, generation) ==
    IF use_fact_checking /\ generation.raised = "no" THEN Judgments
    ELSE {"not asked"}

\* the ids n0, ..., n1 - 1
IdsBetween(n0, n1) == [i \in 1..(n1 - n0) |-> n0 + i - 1]

PipelineInit ==
    /\ reranker_loaded \in BOOLEAN
    /\ llm_model \in {"LLMModel", "None"}

\* the pipeline's capabilities, in the specifications that do not use them
PipelineIdle ==
    /\ reranker_loaded = FALSE
    /\ llm_model = "None"

IndexDocuments(docs, size, ov, failAt) ==
    /\ NoCall
    /\ Len(vectors) + Len(AllChunks(docs, size, ov)) <= MaxIndexed
    /\ failAt <= Len(AllChunks(docs, size, ov))
    /\ LET r == index_documents(Store, docs, size, ov, failAt)
       IN  /\ vectors' = r.vs.vectors
           /\ documents' = r.vs.documents
           /\ ret' = r.ret
           /\ issued' = issued \o IdsBetween(Len(vectors), Len(r.vs.vectors))
    /\ op' = [name |-> "index_documents", documents |-> docs,
              chunk_size |-> size, chunk_overlap |-> ov, failAt |-> failAt]
    /\ pre' = Store
    /\ UNCHANGED <<deleted, notStore>>

Retrieve(q, top_k, expansion) ==
    /\ NoCall
    /\ ret' = retrieve(Store, reranker_loaded, llm_model, q, top_k, expansion)
    /\ op' = [name |-> "retrieve", query |-> q, top_k |-> top_k,
              expansion |-> expansion]
    /\ pre' = Store
    /\ UNCHANGED <<vectors, documents, issued, deleted, notStore>>

Query(q, top_k, use_compression, use_fact_checking, expansion, generation, judgment) ==
    /\ NoCall
    /\ ret' = query(Store, reranker_loaded, llm_model, q, top_k,
                    use_compression, use_fact_checking, expansion, generation,
                    judgment)
    /\ op' = [name |-> "query", query |-> q, top_k |-> top_k,
              use_compression |-> use_compression,
              use_fact_checking |-> use_fact_checking,
              expansion |-> expansion, generation |-> generation,
              judgment |-> judgment]
    /\ pre' = Store
    /\ UNCHANGED <<vectors, documents, issued, deleted, notStore>>

PipelineNext ==
    \/ \E docs \in SeqsUpTo(IndexDocs, 2), c \in ChunkSettings,
          failAt \in 0..MaxIndexed :
            IndexDocuments(docs, c.chunk_size, c.overlap, failAt)
    \/ \E q \in QueryTexts, top_k \in 1..MaxQueryTopK,
          expansion \in ExpansionsFor(llm_model) :
            Retrieve(q, top_k, expansion)
    \/ \E q \in QueryTexts, top_k \in 1..MaxQueryTopK,
          use_compression \in BOOLEAN, use_fact_checking \in BOOLEAN,
          expansion \in ExpansionsFor(llm_model),
          generation \in GenerationsFor(llm_model) :
            \E judgment \in JudgmentsFor(use_fact_checking, generation) :
                Query(q, top_k, use_compression, use_fact_checking, expansion,
                      generation, judgment)
    \/ \E doc_id \in 0..MaxIndexed : Delete(doc_id)
    \/ Clear
    \/ Forget

----------------------------------------------------------------------------
(* The components of one RAGPipeline called on their own, as the handlers  *)
(* expand_query, rerank_documents and compress_context of routers/rag.py   *)
(* call them: one action per call.                                         *)

\* the lines the generation capability answers expand with
ExpandLines ==
    {<<W("none")>>,
     <<Wd("1"), W("a")>>,
     <<Wd("2"), W("b")>>,
     <<Wd("3"), W("c")>>,
     <<Wd("4"), W("a")>>}
ExpandResponses ==
    {Raised("CapabilityFailure")}
        \cup {Returned(lines) : lines \in SeqsUpTo(ExpandLines, MaxLines)}
ExpandResponsesFor(llm) ==
    IF llm = "None" THEN {NotCalled} ELSE ExpandResponses

\* the documents rerank is called with: candidates as retrieve builds them
RerankDocs ==
    {[id |-> 0, content |-> <<W("a")>>, score |-> Float(5)],
     [id |-> 1, content |-> <<W("a"), W("x")>>, score |-> Float(3)],
     [id |-> 2, content |-> <<W("b")>>, score |-> Float(1)]}

\* the documents compress is called with
CompressContents ==
    {<<>>,
     <<Wd("a"), W("b")>>,
     <<Wd("c"), Wd("a"), W("b")>>,
     <<Wd("a"), Wd("c"), W("a"), W("x")>>}
CompressInputs == {[id |-> 0, content |-> t] : t \in CompressContents}

Expand(q, num_expansions, response) ==
    /\ NoCall
    /\ ret' = Returned(expand(llm_model, q, response))
    /\ op' = [name |-> "expand", query |-> q,
              num_expansions |-> num_expansions, response |-> response]
    /\ pre' = Store
    /\ UNCHANGED <<vectors, documents, issued, deleted, notStore>>

Rerank(q, docs, top_k) ==
    /\ NoCall
    /\ ret' = Returned(rerank(reranker_loaded, q, docs, top_k))
    /\ op' = [name |-> "rerank", query |-> q, documents |-> docs,
              top_k |-> top_k]
    /\ pre' = Store
    /\ UNCHANGED <<vectors, documents, issued, deleted, notStore>>

Compress(q, docs, max_sentences_per_doc) ==
    /\ NoCall
    /\ ret' = Returned(compress(reranker_loaded, q, docs,
                                max_sentences_per_doc).ret)
    /\ op' = [name |-> "compress", query |-> q, documents |-> docs,
              max_sentences_per_doc |-> max_sentences_per_doc]
    /\ pre' = Store
    /\ UNCHANGED <<vectors, documents, issued, deleted, notStore>>

ComponentsNext ==
    \/ \E q \in QueryTexts, num_expansions \in 1..MaxExpansions,
          response \in ExpandResponsesFor(llm_model) :
            Expand(q, num_expansions, response)
    \/ \E q \in QueryTexts, docs \in SeqsUpTo(RerankDocs, MaxDocs),
          top_k \in 1..MaxTopK :
            Rerank(q, docs, top_k)
    \/ \E q \in QueryTexts, docs \in SeqsUpTo(CompressInputs, MaxCompressed),
          max_sentences_per_doc \in 1..MaxSentences :
            Compress(q, docs, max_sentences_per_doc)
    \/ Forget

----------------------------------------------------------------------------
(* VectorStore.save and VectorStore.load (src/worker/rag/vector_store.py). *)
(* A path is the record of its directory part, the stem of its file name   *)
(* and the file name's extension ("" if it has none).                      *)

\* config.py line 38, vector_store_path = "./data/vector_store"
VectorStorePath == [dir |-> "./data", stem |-> "vector_store", ext |-> ""]

Paths ==
    {VectorStorePath,
     [dir |-> "./data", stem |-> "vector_store", ext |-> ".npz"],
     [dir |-> "", stem |-> "index", ext |-> ".npz"]}

\* os.path.dirname(path)
dirname(path) == path.dir

\* os.makedirs(name, exist_ok=True): FileNotFoundError on the empty name
makedirs(name) ==
    IF name = "" THEN Raised("FileNotFoundError") ELSE Returned(None)

\* np.savez(file, ...): ".npz" is appended to a file name that does not end
\* with it
savez_file(path) ==
    IF path.ext = ".npz" THEN path ELSE [path EXCEPT !.ext = ".npz"]

FileNames == Paths \cup {savez_file(path) : path \in Paths}

NoFile == [exists |-> FALSE]

\* os.path.exists(path)
exists(fs, path) == fs[path] # NoFile

\* the list holds vectors of more than one length
Ragged(list) ==
    \E i, j \in 1..Len(list) : Len(list[i]) # Len(list[j])

\* np.array(self.vectors) on a ragged list: a ValueError from numpy 1.24 on,
\* an array of objects before
NumpyBuilds == {"ragged raises", "ragged is object array"}

np_array(list, numpy) ==
    IF Ragged(list) /\ numpy = "ragged raises" THEN Raised("ValueError")
    ELSE Returned(list)

\* VectorStore.save: ret is its outcome, fs the file system afterwards
save(vs, fs, path, numpy) ==
    LET made == makedirs(dirname(path))
        array == np_array(vs.vectors, numpy)
    IN  IF made.raised # "no" THEN [ret |-> made, fs |-> fs]
        ELSE IF array.raised # "no" THEN [ret |-> array, fs |-> fs]
        ELSE [ret |-> Returned(None),
              fs |-> [fs EXCEPT ![savez_file(path)] =
                         [exists |-> TRUE, vectors |-> array.value,
                          documents |-> vs.documents]]]

\* VectorStore.load: the store afterwards
load(vs, fs, path) ==
    IF exists(fs, path)
    THEN [vectors |-> fs[path].vectors, documents |-> fs[path].documents]
    ELSE vs

PersistIdle ==
    /\ files = [f \in FileNames |-> NoFile]
    /\ fresh = EmptyStore
    /\ saved = None

PersistVectors == {E1, TooLong}
PersistDocuments == {[content |-> "a"]}

PersistAdd(embedding, document) ==
    /\ Len(vectors) < MaxPersisted
    /\ Add(embedding, document)

Save(path, numpy) ==
    /\ NoCall
    /\ LET r == save(Store, files, path, numpy)
       IN  /\ files' = r.fs
           /\ ret' = r.ret
           /\ saved' = IF r.ret.raised = "no"
                       THEN [path |-> path, store |-> Store]
                       ELSE saved
    /\ op' = [name |-> "save", path |-> path, numpy |-> numpy]
    /\ pre' = Store
    /\ UNCHANGED <<vectors, documents, issued, deleted, fresh, chunkVars,
                   pipelineVars, handlerVars, llmVars>>

\* VectorStore(dimension) followed by load(path) on it
Load(path) ==
    /\ NoCall
    /\ fresh' = load(EmptyStore, files, path)
    /\ ret' = Returned(None)
    /\ op' = [name |-> "load", path |-> path]
    /\ pre' = Store
    /\ UNCHANGED <<vectors, documents, issued, deleted, files, saved,
                   chunkVars, pipelineVars, handlerVars, llmVars>>

PersistNext ==
    \/ \E embedding \in PersistVectors, document \in PersistDocuments :
            PersistAdd(embedding, document)
    \/ \E doc_id \in 0..(MaxPersisted - 1) : Delete(doc_id)
    \/ \E path \in Paths, numpy \in NumpyBuilds : Save(path, numpy)
    \/ \E path \in Paths : Load(path)
    \/ Forget

----------------------------------------------------------------------------
(* The request handlers of src/worker/routers/rag.py on the one pipeline   *)
(* of the process (app.py runs uvicorn with workers=1). Each handler is a  *)
(* coroutine of the event loop; the VectorStore methods it calls are       *)
(* followed statement by statement.                                        *)

Requests == 1..NumRequests

Handlers == {"index_documents", "search_documents", "clear_index"}

\* the event loop starts another handler
MayStart_threadpool(started) == TRUE

\* the handlers are async def and await nothing: the event loop enters a
\* handler only when none is between its start and its return
MayStart(started) == started = {}

\* a handler stands between the two assignments of add or of clear
MidMutation(r) == hpc[r] \in {"add: vectors appended", "clear: vectors reset"}

HandlersIdle ==
    /\ request = [r \in Requests |-> "none"]
    /\ hpc = [r \in Requests |-> "none"]
    /\ running = {}
    /\ seen = [r \in Requests |-> None]

\* a request for handler h arrives
Receive(r, h) ==
    /\ hpc[r] = "none"
    /\ request' = [request EXCEPT ![r] = h]
    /\ hpc' = [hpc EXCEPT ![r] = "queued"]
    /\ UNCHANGED <<vectors, documents, callRecord, running, seen, chunkVars,
                   pipelineVars, persistVars, llmVars>>

Start(r) ==
    /\ hpc[r] = "queued"
    /\ MayStart(running)
    /\ running' = running \cup {r}
    /\ hpc' = [hpc EXCEPT ![r] = "entered"]
    /\ UNCHANGED <<vectors, documents, callRecord, request, seen, chunkVars,
                   pipelineVars, persistVars, llmVars>>

\* add, line 22: self.vectors.append(embedding)
AddAppendVector(r) ==
    /\ r \in running
    /\ request[r] = "index_documents"
    /\ hpc[r] = "entered"
    /\ vectors' = Append(vectors, E1)
    /\ hpc' = [hpc EXCEPT ![r] = "add: vectors appended"]
    /\ UNCHANGED <<documents, callRecord, request, running, seen, chunkVars,
                   pipelineVars, persistVars, llmVars>>

\* add, lines 23-27: self.documents.append(...), and the handler returns
AddAppendDocument(r) ==
    /\ r \in running
    /\ hpc[r] = "add: vectors appended"
    /\ documents' = Append(documents,
                           [id |-> Len(vectors) - 1, content |-> "a"])
    /\ hpc' = [hpc EXCEPT ![r] = "returned"]
    /\ running' = running \ {r}
    /\ UNCHANGED <<vectors, callRecord, request, seen, chunkVars,
                   pipelineVars, persistVars, llmVars>>

\* clear, line 72: self.vectors = []
ClearVectors(r) ==
    /\ r \in running
    /\ request[r] = "clear_index"
    /\ hpc[r] = "entered"
    /\ vectors' = <<>>
    /\ hpc' = [hpc EXCEPT ![r] = "clear: vectors reset"]
    /\ UNCHANGED <<documents, callRecord, request, running, seen, chunkVars,
                   pipelineVars, persistVars, llmVars>>

\* clear, line 73: self.documents = [], and the handler returns
ClearDocuments(r) ==
    /\ r \in running
    /\ hpc[r] = "clear: vectors reset"
    /\ documents' = <<>>
    /\ hpc' = [hpc EXCEPT ![r] = "returned"]
    /\ running' = running \ {r}
    /\ UNCHANGED <<vectors, callRecord, request, seen, chunkVars,
                   pipelineVars, persistVars, llmVars>>

\* what a search reads of the store at one of its statements
Seen == [vectors |-> Len(vectors), documents |-> Len(documents),
         mid_mutation |-> \E r \in Requests : MidMutation(r)]

\* search, lines 43-44: if not self.vectors: return []
SearchBegin(r) ==
    /\ r \in running
    /\ request[r] = "search_documents"
    /\ hpc[r] = "entered"
    /\ IF vectors = <<>>
       THEN /\ hpc' = [hpc EXCEPT ![r] = "returned"]
            /\ running' = running \ {r}
            /\ seen' = [seen EXCEPT ![r] = Seen]
       ELSE /\ hpc' = [hpc EXCEPT ![r] = "search: scanning"]
            /\ UNCHANGED <<running, seen>>
    /\ UNCHANGED <<vectors, documents, callRecord, request, chunkVars,
                   pipelineVars, persistVars, llmVars>>

\* search, lines 50-59: the loop over self.vectors and self.documents, the
\* sort, and the handler returns
SearchLoop(r) ==
    /\ r \in running
    /\ hpc[r] = "search: scanning"
    /\ seen' = [seen EXCEPT ![r] = Seen]
    /\ hpc' = [hpc EXCEPT ![r] = "returned"]
    /\ running' = running \ {r}
    /\ UNCHANGED <<vectors, documents, callRecord, request, chunkVars,
                   pipelineVars, persistVars, llmVars>>

HandlersNext ==
    \/ \E r \in Requests, h \in Handlers : Receive(r, h)
    \/ \E r \in Requests : Start(r)
    \/ \E r \in Requests : AddAppendVector(r)
    \/ \E r \in Requests : AddAppendDocument(r)
    \/ \E r \in Requests : ClearVectors(r)
    \/ \E r \in Requests : ClearDocuments(r)
    \/ \E r \in Requests : SearchBegin(r)
    \/ \E r \in Requests : SearchLoop(r)

----------------------------------------------------------------------------
(* LLMModel (src/worker/models/llm_model.py): initialize and generate on   *)
(* the one LLMModel of the process. A message is the record of its role    *)
(* and content.                                                            *)

\* settings.llm_mode, and what the environment does when the configured
\* backend package is imported and its model constructed
Modes == {"mock", "vllm", "llamacpp", "other"}
Backends == {"not installed", "load fails", "loads"}
ModelPaths == {"None", "models/m.gguf"}

\* config.py line 28, vllm_model
VllmModel == "Qwen/Qwen2.5-0.5B-Instruct"

\* LLMModel.__init__
LLMConstructed(m) ==
    [mode |-> m, model |-> "None", loaded |-> FALSE, model_name |-> "local-llm"]

\* the LLMModel as the variables hold it
LLM ==
    [mode |-> self_mode, model |-> self_model, loaded |-> self_loaded,
     model_name |-> self_model_name]

\* _init_mock: sets _loaded and model_name, and leaves mode and model alone
init_mock(llm) == [llm EXCEPT !.loaded = TRUE, !.model_name = "mock-llm"]

\* _init_vllm: the import or the constructor raises, and except falls back
init_vllm(llm, env) ==
    IF env = "loads"
    THEN [llm EXCEPT !.model = "LLM", !.model_name = VllmModel,
                     !.loaded = TRUE]
    ELSE init_mock(llm)

\* settings.llm_model_path.split("/")[-1]
LastPathPart(path) == IF path = "models/m.gguf" THEN "m.gguf" ELSE path

\* _init_llamacpp: the import raises first; with no path it falls back
\* without loading; the constructor raises
init_llamacpp(llm, env, path) ==
    IF env = "not installed" THEN init_mock(llm)
    ELSE IF path = "None" THEN init_mock(llm)
    ELSE IF env = "load fails" THEN init_mock(llm)
    ELSE [llm EXCEPT !.model = "Llama", !.model_name = LastPathPart(path),
                     !.loaded = TRUE]

\* LLMModel.initialize
initialize(llm, env, path) ==
    CASE llm.mode = "mock" -> init_mock(llm)
      [] llm.mode = "vllm" -> init_vllm(llm, env)
      [] llm.mode = "llamacpp" -> init_llamacpp(llm, env, path)
      [] OTHER -> init_mock(llm)

\* the keys of mock_responses in the order of the dict
MockKeywords == <<"hello", "how are you", "what can you do", "test">>

\* the user messages of the model, and `keyword in user_message.lower()`
UserTexts == {"Hello, run a test", "How are you?", "why"}
KeywordIn(keyword, text) ==
    \/ text = "Hello, run a test" /\ keyword \in {"hello", "test"}
    \/ text = "How are you?" /\ keyword = "how are you"

\* the content of the last message of role user, "" if there is none
LastUserMessage(messages) ==
    LET U == {i \in 1..Len(messages) : messages[i].role = "user"}
    IN  IF U = {} THEN ""
        ELSE messages[CHOOSE i \in U : \A j \in U : j <= i].content

\* _generate_mock: the response of the first keyword found in the last user
\* message, or the echo of that message
generate_mock(llm, messages) ==
    LET user_message == LastUserMessage(messages)
        K == {k \in 1..Len(MockKeywords) :
                 KeywordIn(MockKeywords[k], user_message)}
    IN  Returned([model |-> llm.model_name,
                  content |-> IF K = {}
                              THEN [echo |-> user_message]
                              ELSE [mock_response |->
                                      MockKeywords[CHOOSE k \in K :
                                                      \A j \in K : k <= j]]])

\* _generate_vllm: `from vllm import SamplingParams`, then
\* self.model.generate, an AttributeError on None; answer is what the loaded
\* backend returns or raises
generate_vllm(llm, env, answer) ==
    IF env = "not installed" THEN Raised("ModuleNotFoundError")
    ELSE IF llm.model = "None" THEN Raised("AttributeError")
    ELSE IF answer.raised # "no" THEN answer
    ELSE Returned([model |-> llm.model_name, content |-> answer.value])

\* _generate_llamacpp: self.model(prompt, ...), a TypeError on None
generate_llamacpp(llm, answer) ==
    IF llm.model = "None" THEN Raised("TypeError")
    ELSE IF answer.raised # "no" THEN answer
    ELSE Returned([model |-> llm.model_name, content |-> answer.value])

\* LLMModel.generate: dispatch on self.mode
generate(llm, env, messages, answer) ==
    CASE llm.mode = "mock" -> generate_mock(llm, messages)
      [] llm.mode = "vllm" -> generate_vllm(llm, env, answer)
      [] llm.mode = "llamacpp" -> generate_llamacpp(llm, answer)
      [] OTHER -> generate_mock(llm, messages)

\* what callers pass to generate, and what a loaded backend answers
Messages ==
    {[role |-> "system", content |-> "s"]}
        \cup {[role |-> "user", content |-> t] : t \in UserTexts}
BackendAnswers == {Raised("RuntimeError"), Returned([text |-> "completion"])}

\* the backend answers only a call that reaches it
BackendAnswersFor(llm, env) ==
    IF generate(llm, env, <<>>, NotCalled) = NotCalled THEN BackendAnswers
    ELSE {NotCalled}

LLMIdle ==
    /\ self_mode = "mock"
    /\ self_model = "None"
    /\ self_loaded = FALSE
    /\ self_model_name = "local-llm"
    /\ backend = "loads"
    /\ llm_model_path = "None"

\* LLMModel() in a process with any settings and any environment
LLMInit ==
    /\ \E m \in Modes :
           /\ self_mode = LLMConstructed(m).mode
           /\ self_model = LLMConstructed(m).model
           /\ self_loaded = LLMConstructed(m).loaded
           /\ self_model_name = LLMConstructed(m).model_name
    /\ backend \in Backends
    /\ llm_model_path \in ModelPaths

Initialize ==
    /\ NoCall
    /\ LET r == initialize(LLM, backend, llm_model_path)
       IN  /\ self_mode' = r.mode
           /\ self_model' = r.model
           /\ self_loaded' = r.loaded
           /\ self_model_name' = r.model_name
    /\ op' = [name |-> "initialize"]
    /\ ret' = Returned(None)
    /\ pre' = Store
    /\ UNCHANGED <<vectors, documents, issued, deleted, backend,
                   llm_model_path, chunkVars, pipelineVars, persistVars,
                   handlerVars>>

Generate(messages, answer) ==
    /\ NoCall
    /\ ret' = generate(LLM, backend, messages, answer)
    /\ op' = [name |-> "generate", messages |-> messages, answer |-> answer]
    /\ pre' = Store
    /\ UNCHANGED <<vectors, documents, issued, deleted, notStore>>

LLMNext ==
    \/ Initialize
    \/ \E messages \in SeqsUpTo(Messages, MaxMessages),
          answer \in BackendAnswersFor(LLM, backend) :
            Generate(messages, answer)
    \/ Forget

----------------------------------------------------------------------------
(* Specifications *)

Init == StoreInit /\ ChunkIdle /\ PipelineIdle /\ PersistIdle /\ HandlersIdle
        /\ LLMIdle

Next == StoreNext

Spec == Init /\ [][Next]_vars

\* the chunker alone, on every call of ChunkCalls
InitChunk ==
    ChunkInit /\ StoreInit /\ PipelineIdle /\ PersistIdle /\ HandlersIdle
        /\ LLMIdle

SpecChunk == InitChunk /\ [][ChunkNext]_vars

\* one RAGPipeline and the calls made on it
InitPipeline ==
    StoreInit /\ ChunkIdle /\ PipelineInit /\ PersistIdle /\ HandlersIdle
        /\ LLMIdle

SpecPipeline == InitPipeline /\ [][PipelineNext]_vars

\* one VectorStore that is saved, and the fresh stores that are loaded
InitPersist ==
    StoreInit /\ ChunkIdle /\ PipelineIdle /\ PersistIdle /\ HandlersIdle
        /\ LLMIdle

SpecPersist == InitPersist /\ [][PersistNext]_vars

\* the components of one RAGPipeline, called on their own
InitComponents ==
    StoreInit /\ ChunkIdle /\ PipelineInit /\ PersistIdle /\ HandlersIdle
        /\ LLMIdle

SpecComponents == InitComponents /\ [][ComponentsNext]_vars

\* the handlers of requests that are in flight together
InitHandlers ==
    StoreInit /\ ChunkIdle /\ PipelineIdle /\ PersistIdle /\ HandlersIdle
        /\ LLMIdle

SpecHandlers == InitHandlers /\ [][HandlersNext]_vars

\* one LLMModel, initialized and asked to generate
InitLLM ==
    StoreInit /\ ChunkIdle /\ PipelineIdle /\ PersistIdle /\ HandlersIdle
        /\ LLMInit

SpecLLM == InitLLM /\ [][LLMNext]_vars

----------------------------------------------------------------------------
(* Claims about the VectorStore, checked under Spec.                       *)

\* the ids of the entries a search returned
ReturnedIds(r) == {r.value[i].id : i \in 1..Len(r.value)}

\* C1 (as claimed): once delete(id) has succeeded, no later search returns
\* an entry with that id (no clear in between): search skips deleted entries.
C1_DeletedNeverReturned ==
    (op.name = "search" /\ ret.raised = "no") =>
        ReturnedIds(ret) \cap deleted = {}

\* C2: in any sequence of add, add_batch and delete without clear, every id
\* add returns is greater than every id issued before it: no id is reused.
C2_IdsStrictlyIncrease ==
    \A i, j \in 1..Len(issued) : i < j => issued[i] < issued[j]

\* an add returned an id after an earlier entry had been deleted
C2_Witness ==
    /\ op.name = "add"
    /\ deleted # {}
    /\ Len(issued) >= 2
    /\ ret.value = issued[Len(issued)]

\* C3 (as claimed): add of a vector whose length is not the store's dimension
\* fails with DimensionMismatch and leaves the store as it was.
C3_DimensionMismatch ==
    (op.name = "add" /\ Len(op.embedding) # Dim) =>
        /\ ret.raised = "DimensionMismatch"
        /\ Store = pre

----------------------------------------------------------------------------
(* Claims about the chunker, checked under SpecChunk.                      *)

\* the call is one of more than chunk_size words
LongText == cpc # "idle" /\ Len(words) > chunk_size

CeilDiv(a, b) == (a + b - 1) \div b

\* the first word of each chunk, less one: the start of its window
WindowStarts == [i \in 1..Len(chunks) |-> chunks[i][1] - 1]

\* C5 (as claimed): called with overlap >= chunk_size on a text of more than
\* chunk_size words, chunk ends with an InvalidConfig error and never loops.
C5_InvalidConfig ==
    (LongText /\ overlap >= chunk_size /\ cpc # "call") =>
        cpc = "InvalidConfig"

\* C6 (as claimed): for N > chunk_size words and overlap < chunk_size, chunk
\* returns ceil((N - chunk_size) / (chunk_size - overlap)) + 1 chunks; for
\* N = 25, chunk_size = 10, overlap = 3 these are 3 chunks starting at 0, 7, 14.
C6_ChunkCount ==
    (LongText /\ overlap < chunk_size /\ cpc = "done") =>
        /\ Len(chunks) =
              CeilDiv(Len(words) - chunk_size, chunk_size - overlap) + 1
        /\ (Len(words) = 25 /\ chunk_size = 10 /\ overlap = 3) =>
              WindowStarts = <<0, 7, 14>>

\* C6 (amended): for N > chunk_size words and overlap < chunk_size, chunk
\* returns ceil(N / (chunk_size - overlap)) chunks, the i-th being the window
\* of chunk_size words that starts at (i - 1) * (chunk_size - overlap), cut at
\* the end of the text; for N = 25, chunk_size = 10, overlap = 3 these are 4
\* chunks starting at 0, 7, 14, 21.
C6_ChunkCountAmended ==
    (LongText /\ overlap < chunk_size /\ cpc = "done") =>
        LET step == chunk_size - overlap
        IN  /\ Len(chunks) = CeilDiv(Len(words), step)
            /\ \A i \in 1..Len(chunks) :
                  chunks[i] = Slice(words, (i - 1) * step,
                                    (i - 1) * step + chunk_size)
            /\ (Len(words) = 25 /\ chunk_size = 10 /\ overlap = 3) =>
                  WindowStarts = <<0, 7, 14, 21>>

\* the chunker has returned on the 25-word text with chunk_size 10, overlap 3
C6_Witness ==
    /\ cpc = "done"
    /\ Len(words) = 25 /\ chunk_size = 10 /\ overlap = 3
    /\ Len(chunks) = 4

----------------------------------------------------------------------------
(* Claims about RAGPipeline.query and index_documents, under SpecPipeline  *)

\* what retrieve returns for the query, top_k and expansion answer of the
\* recorded call, on the store as it was when the call was made
RetrievedForCall ==
    retrieve(pre, reranker_loaded, llm_model, op.query, op.top_k, op.expansion)

\* the context a recorded query call handed to generation
ContextForCall ==
    IF op.use_compression
    THEN compress(reranker_loaded, op.query, RetrievedForCall.value,
                  MaxSentencesPerDoc).ret
    ELSE RetrievedForCall.value

\* C4: the sources a query returns are the list retrieve returns for the same
\* query and top_k, with compression on or off: compression changes the
\* context given to generation and never the reported sources.
C4_SourcesUncompressed ==
    (op.name = "query" /\ ret.raised = "no")
        => ret.value.sources = RetrievedForCall.value

\* a query answered from a compressed context that differs from its sources
C4_Witness ==
    /\ op.name = "query"
    /\ ret.raised = "no"
    /\ op.use_compression
    /\ reranker_loaded
    /\ ret.value.sources # <<>>
    /\ ContextForCall # ret.value.sources
    /\ ret.value.sources = RetrievedForCall.value

\* the fact checker's generation capability is unavailable or raises
FactCheckerFails == op.judgment \in {"unavailable", "raises"}

C8_ReturnedCount ==
    op.name = "index_documents"
        => /\ ret.raised = "no"
           /\ ret.value = count(Store) - count(pre)

\* what the code does instead: a failed embedding call ends index_documents
\* with the exception, the chunks inserted before it stay in the index
C8_PartialKeptCountLost ==
    (op.name = "index_documents" /\ ret.raised # "no")
        => /\ ret.raised = "CapabilityFailure"
           /\ op.failAt >= 1
           /\ count(Store) - count(pre) = op.failAt - 1

\* a call that failed on its second chunk: one chunk inserted, none reported
C8_PartialState ==
    /\ op.name = "index_documents"
    /\ op.failAt = 2
    /\ ret.raised # "no"
    /\ count(Store) = count(pre) + 1

----------------------------------------------------------------------------
(* Claims about save and load, under SpecPersist                           *)

\* the recorded call is load(path) after save(path) returned on the store
\* as it is now
LoadedAfterSave ==
    /\ op.name = "load"
    /\ saved # None
    /\ saved.path = op.path
    /\ saved.store = Store

\* C9: save(path) followed by load(path) into a fresh store restores the
\* vectors and the documents, tombstones included, so that every search on
\* the fresh store returns what it returns on the saved one.
C9_SaveLoadRoundTrip ==
    LoadedAfterSave
        => /\ fresh = Store
           /\ \A query_embedding \in Queries, top_k \in 1..MaxTopK :
                  search(fresh, query_embedding, top_k)
                      = search(Store, query_embedding, top_k)

\* what the code does: the round trip restores the store when path ends
\* with ".npz", and leaves the fresh store empty when it does not
C9_RoundTripBySuffix ==
    LoadedAfterSave
        => fresh = IF op.path.ext = ".npz" THEN Store ELSE EmptyStore

\* load on the configured path after a save of a store with a tombstone
C9_LoadFindsNoFile ==
    /\ LoadedAfterSave
    /\ op.path = VectorStorePath
    /\ deleted # {}
    /\ Len(vectors) = MaxPersisted
    /\ fresh = EmptyStore

----------------------------------------------------------------------------
(* Claims about concurrent requests, under SpecHandlers                    *)

\* C10: handlers that call add, clear and search on the shared store exclude
\* one another: no two are between start and return together, and no search
\* reads the lists between the two assignments of an add or a clear, or
\* finds them of two lengths.
C10_MutuallyExclusive ==
    /\ Cardinality(running) <= 1
    /\ \A r \in Requests :
          seen[r] # None
              => /\ seen[r].vectors = seen[r].documents
                 /\ ~seen[r].mid_mutation

\* a search stands inside its loop over the store an index request has
\* filled, while a clear request waits for the event loop
C10_Witness ==
    \E r, i, c \in Requests :
        /\ request[r] = "search_documents" /\ hpc[r] = "search: scanning"
        /\ request[i] = "index_documents" /\ hpc[i] = "returned"
        /\ request[c] = "clear_index" /\ hpc[c] = "queued"
        /\ vectors # <<>>

----------------------------------------------------------------------------
(* Claims about search order and count, under Spec                         *)

\* two scores that are equal numbers
SameScore(a, b) == ~a.nan /\ ~b.nan /\ a = b

\* C12 (as claimed): search returns at most top_k entries, ordered by cosine
\* similarity from highest to lowest, entries of equal score lower id first.
C12_SearchOrdered ==
    (op.name = "search" /\ ret.raised = "no")
        => /\ Len(ret.value) <= op.top_k
           /\ \A i, j \in 1..Len(ret.value) :
                  i < j => /\ ~FloatLT(ret.value[i].score, ret.value[j].score)
                           /\ SameScore(ret.value[i].score, ret.value[j].score)
                                  => ret.value[i].id < ret.value[j].id

\* what holds of the code: the order claimed, on a store whose vectors all
\* have a norm (no tombstone, no zero vector)
C12_OrderedWithoutNaN ==
    (/\ op.name = "search"
     /\ ret.raised = "no"
     /\ \A i \in 1..Len(ret.value) : ~ret.value[i].score.nan)
        => /\ Len(ret.value) <= op.top_k
           /\ \A i, j \in 1..Len(ret.value) :
                  i < j => /\ ~FloatLT(ret.value[i].score, ret.value[j].score)
                           /\ SameScore(ret.value[i].score, ret.value[j].score)
                                  => ret.value[i].id < ret.value[j].id

\* the recorded call is a delete of an entry that was live
DeletedLiveEntry ==
    /\ op.name = "delete"
    /\ 0 <= op.doc_id
    /\ op.doc_id < Len(pre.documents)
    /\ pre.documents[op.doc_id + 1] # None

\* C13: count() is the number of entries that are not tombstones (the ids
\* issued less the ids deleted); a delete of a live entry lowers it by one
\* and keeps the slot: no list shrinks and every other entry stays as it was.
C13_CountLiveEntries ==
    /\ count(Store) = Len(issued) - Cardinality(deleted)
    /\ DeletedLiveEntry
          => /\ count(Store) = count(pre) - 1
             /\ Len(vectors) = Len(pre.vectors)
             /\ Len(documents) = Len(pre.documents)
             /\ documents[op.doc_id + 1] = None
             /\ vectors[op.doc_id + 1] = Zeros
             /\ \A k \in 1..Len(documents) :
                    k # op.doc_id + 1
                        => /\ documents[k] = pre.documents[k]
                           /\ vectors[k] = pre.vectors[k]

\* a live entry deleted between an earlier tombstone and a live entry
C13_Witness ==
    /\ DeletedLiveEntry
    /\ op.doc_id = 1
    /\ Len(documents) = 3
    /\ documents[1] = None
    /\ documents[3] # None
    /\ count(Store) = 1

----------------------------------------------------------------------------
(* Claims about QueryExpansion.expand, under SpecComponents                *)

\* the paraphrases parsed from the answer of the recorded expand call
ParsedForCall ==
    IF llm_model = "None" \/ op.response.raised # "no" THEN <<>>
    ELSE ParseLines(op.response.value)

\* C11 (as claimed): expand returns at most 1 + num_expansions queries,
\* however many parseable lines the generation capability returns.
C11_AtMostNumExpansions ==
    op.name = "expand" => Len(ret.value) <= 1 + op.num_expansions

\* what holds of the code: one query more than the parseable lines at most
C11_AtMostParsedLines ==
    op.name = "expand" => Len(ret.value) <= 1 + Len(ParsedForCall)

\* C16: expand returns the original query alone when the generation
\* capability is absent, raises, or answers without a parseable line, and it
\* does not raise.
C16_FallbackToOriginal ==
    (op.name = "expand" /\ ParsedForCall = <<>>)
        => ret = Returned(<<op.query>>)

\* the capability answered two lines, neither with the delimiter
C16_Witness ==
    /\ op.name = "expand"
    /\ llm_model # "None"
    /\ op.response.raised = "no"
    /\ Len(op.response.value) = 2
    /\ ParsedForCall = <<>>
    /\ ret = Returned(<<op.query>>)

\* the place of the first item equal to x in the list s (0: none)
FirstIndex(s, x) ==
    LET S == {i \in 1..Len(s) : s[i] = x}
    IN  IF S = {} THEN 0 ELSE CHOOSE i \in S : \A j \in S : i <= j

\* C17: the list expand returns starts with the original query and repeats
\* no string; the paraphrases are in first-occurrence order, and one equal to
\* the original query is dropped.
C17_OriginalFirstNoDuplicates ==
    op.name = "expand"
        => LET out == ret.value
               parsed == ParsedForCall
           IN  /\ Len(out) >= 1
               /\ out[1] = op.query
               /\ \A i, j \in 1..Len(out) : i # j => out[i] # out[j]
               /\ \A k \in 1..Len(parsed) :
                      \E i \in 1..Len(out) : out[i] = parsed[k]
               /\ \A i \in 2..Len(out) : FirstIndex(parsed, out[i]) > 0
               /\ \A i, j \in 2..Len(out) :
                      i < j => FirstIndex(parsed, out[i])
                                   < FirstIndex(parsed, out[j])

\* three parsed lines, one repeated and one equal to the original query
C17_Witness ==
    /\ op.name = "expand"
    /\ Len(ParsedForCall) = 3
    /\ ParsedForCall[1] = ParsedForCall[3]
    /\ ParsedForCall[2] = op.query
    /\ Len(ret.value) = 2

----------------------------------------------------------------------------
(* Claims about Reranker.rerank, under SpecComponents                      *)

\* C18: rerank with an unloaded scorer, or with no documents, returns the
\* first top_k documents it was given, in their order and as they were, none
\* with a rerank_score, and raises nothing.
C18_DegradedPassThrough ==
    (op.name = "rerank" /\ (~reranker_loaded \/ op.documents = <<>>))
        => /\ ret.raised = "no"
           /\ Len(ret.value) = Min(op.top_k, Len(op.documents))
           /\ \A i \in 1..Len(ret.value) :
                  /\ ret.value[i] = op.documents[i]
                  /\ "rerank_score" \notin DOMAIN ret.value[i]

\* three documents given to an unloaded scorer with top_k = 2
C18_Witness ==
    /\ op.name = "rerank"
    /\ ~reranker_loaded
    /\ Len(op.documents) = 3
    /\ op.top_k = 2
    /\ ret.value = <<op.documents[1], op.documents[2]>>

\* the score the scorer gives the i-th document of the recorded call
ScoreForCall(i) == predict(op.query, op.documents[i].content)

\* C19: rerank with a loaded scorer returns at most top_k documents, by
\* rerank_score from highest to lowest, documents of equal rerank_score in
\* their original relative order, each with its score field as it was.
C19_RerankedStable ==
    (op.name = "rerank" /\ reranker_loaded /\ op.documents # <<>>)
        => LET n == Len(op.documents)
               out == ret.value
           IN  /\ Len(out) = Min(op.top_k, n)
               /\ \E p \in Permutations(1..n) :
                      /\ \A k \in 1..Len(out) :
                             /\ out[k].rerank_score = Float(ScoreForCall(p[k]))
                             /\ out[k].score = op.documents[p[k]].score
                             /\ out[k].id = op.documents[p[k]].id
                             /\ out[k].content = op.documents[p[k]].content
                      /\ \A k, l \in 1..n :
                             k < l => \/ ScoreForCall(p[k]) > ScoreForCall(p[l])
                                      \/ /\ ScoreForCall(p[k]) = ScoreForCall(p[l])
                                         /\ p[k] < p[l]

\* the last of three documents scores highest, the first two score the same
C19_Witness ==
    /\ op.name = "rerank"
    /\ reranker_loaded
    /\ Len(op.documents) = 3
    /\ ScoreForCall(1) = ScoreForCall(2)
    /\ ScoreForCall(3) > ScoreForCall(1)
    /\ op.documents[1] # op.documents[2]
    /\ op.top_k = 3
    /\ ret.value[1].id = op.documents[3].id
    /\ ret.value[2].id = op.documents[1].id
    /\ ret.value[3].id = op.documents[2].id

----------------------------------------------------------------------------
(* Claims about ContextCompressor.compress, under SpecComponents           *)

\* the documents of the recorded compress call that have a sentence
WithSentences == SelectSeq(op.documents, LAMBDA d : d.content # <<>>)

\* content is at most m sentences of original, the highest-scoring ones,
\* joined from the highest score to the lowest
IsTopSentences(content, original, m) ==
    LET sentences == SplitSentences(original)
        n == Len(sentences)
        score(i) == predict(op.query, sentences[i])
    IN  \E p \in Permutations(1..n) :
            /\ \A k, l \in 1..n : k < l => score(p[k]) >= score(p[l])
            /\ content = JoinSentences([k \in 1..Min(m, n) |-> sentences[p[k]]])

\* C20: compress with a loaded scorer returns, for each document it is given
\* and in their order, a document whose content is the at most
\* max_sentences_per_doc highest-scoring sentences of the original, joined in
\* score-descending order; a document without a sentence is dropped, so it
\* returns no more documents than it was given.
C20_CompressTopSentences ==
    (op.name = "compress" /\ reranker_loaded)
        => /\ ret.raised = "no"
           /\ Len(ret.value) <= Len(op.documents)
           /\ Len(ret.value) = Len(WithSentences)
           /\ \A k \in 1..Len(ret.value) :
                  /\ ret.value[k].id = WithSentences[k].id
                  /\ IsTopSentences(ret.value[k].content,
                                    WithSentences[k].content,
                                    op.max_sentences_per_doc)

\* an empty document is dropped, and of the three sentences "c", "a", "b" of
\* the other the two best are kept, best first
C20_Witness ==
    /\ op.name = "compress"
    /\ reranker_loaded
    /\ op.max_sentences_per_doc = 2
    /\ Len(op.documents) = 2
    /\ op.documents[1].content = <<>>
    /\ op.documents[2].content = <<Wd("c"), Wd("a"), W("b")>>
    /\ op.query = <<W("b")>>
    /\ Len(ret.value) = 1
    /\ ret.value[1].content = <<Wd("b"), W("a")>>

----------------------------------------------------------------------------
(* Claims about the stages of retrieve and query, under SpecPipeline       *)

\* the expanded queries of the recorded retrieve or query call
QueriesForCall == expand(llm_model, op.query, op.expansion)

\* what search returned for the k-th expanded query of the recorded call
ResultsForCall(k) ==
    search(pre, encode(QueriesForCall[k]), InitialK(op.top_k)).value

\* the results of the first k expanded queries, in expansion order
RECURSIVE ResultsUpTo(_)
ResultsUpTo(k) ==
    IF k = 0 THEN <<>> ELSE Append(ResultsUpTo(k - 1), ResultsForCall(k))

\* these results hold the live entry id with this score
FoundIn(results, id, score) ==
    \E i \in 1..Len(results) :
        /\ results[i].id = id
        /\ results[i].doc # None
        /\ results[i].score = score

\* the candidate list the recorded call passed to the reranker
CandidatesForCall ==
    RetrieveLoop(pre, QueriesForCall, InitialK(op.top_k), <<>>).value

\* C15: retrieve merges the results of the expanded queries by document id,
\* the first occurrence winning: the candidates passed to the reranker hold
\* each id once, with the score of the first expanded query that found it.
C15_FirstOccurrenceWins ==
    op.name = "retrieve"
        => LET cands == CandidatesForCall
               n == Len(QueriesForCall)
               results == ResultsUpTo(n)
           IN  /\ \A i, j \in 1..Len(cands) : i # j => cands[i].id # cands[j].id
               /\ \A i \in 1..Len(cands) :
                      \E k \in 1..n :
                          /\ FoundIn(results[k], cands[i].id, cands[i].score)
                          /\ \A l \in 1..(k - 1) :
                                 \A i2 \in 1..Len(results[l]) :
                                     results[l][i2].id = cands[i].id
                                         => results[l][i2].doc = None
               /\ \A k \in 1..n : \A i \in 1..Len(results[k]) :
                      results[k][i].doc # None
                          => \E j \in 1..Len(cands) :
                                 cands[j].id = results[k][i].id

\* a later expanded query found a candidate again, with another score
C15_Witness ==
    /\ op.name = "retrieve"
    /\ Len(QueriesForCall) >= 2
    /\ LET cands == CandidatesForCall
           first == ResultsForCall(1)
           second == ResultsForCall(2)
       IN  \E i \in 1..Len(cands), j \in 1..Len(second) :
               /\ second[j].id = cands[i].id
               /\ second[j].doc # None
               /\ second[j].score # cands[i].score
               /\ FoundIn(first, cands[i].id, cands[i].score)

\* the statements entered by the recorded query call
StagesForCall ==
    query_stages(pre, reranker_loaded, llm_model, op.query, op.top_k,
                 op.use_compression, op.use_fact_checking, op.expansion,
                 op.generation, op.judgment)

\* the generation capability gave the recorded query call no response
GenerationFailed == llm_model = "None" \/ op.generation.raised # "no"

\* the place of a stage in the fixed order
StageRank(stage) ==
    CASE stage = "retrieve" -> 1
      [] stage = "compress" -> 2
      [] stage = "generate" -> 3
      [] stage = "fact_check" -> 4
      [] stage = "assemble" -> 5

\* C14: query runs its stages in the order retrieve, optional compress,
\* generate, optional fact-check, assemble; the fact checker is invoked only
\* after generation returned, and when generation fails the query fails with
\* no result and without invoking the fact checker.
C14_StagesInOrder ==
    op.name = "query"
        => LET st == StagesForCall
               Ran(stage) == \E i \in 1..Len(st) : st[i] = stage
           IN  /\ Len(st) >= 1 /\ st[1] = "retrieve"
               /\ \A i, j \in 1..Len(st) :
                      i < j => StageRank(st[i]) < StageRank(st[j])
               /\ Ran("compress") => op.use_compression
               /\ Ran("fact_check")
                      => /\ op.use_fact_checking
                         /\ Ran("generate")
                         /\ ~GenerationFailed
               /\ GenerationFailed
                      => /\ ret.raised # "no"
                         /\ ret.value = None
                         /\ ~Ran("fact_check")
                         /\ ~Ran("assemble")
               /\ (ret.raised = "no") <=> Ran("assemble")
               /\ ret.raised = "no"
                      => /\ Ran("generate")
                         /\ op.use_compression <=> Ran("compress")
                         /\ op.use_fact_checking <=> Ran("fact_check")
                         /\ (ret.value.fact_check # None) <=> Ran("fact_check")

\* a query asked to fact-check whose generation failed after the context
\* was compressed
C14_Witness ==
    /\ op.name = "query"
    /\ op.use_fact_checking
    /\ op.use_compression
    /\ llm_model # "None"
    /\ op.generation.raised # "no"
    /\ StagesForCall = <<"retrieve", "compress", "generate">>
    /\ ret.raised # "no"

----------------------------------------------------------------------------
(* Claims about delete, clear and the slots of the store                   *)

\* C21: delete(id) returns success exactly when 0 <= id < number of issued
\* slots; on failure the index is unchanged; deleting an id that is already
\* tombstoned returns success again and leaves the index as it was.
C21_DeleteInRangeIdempotent ==
    op.name = "delete"
        => /\ ret.raised = "no"
           /\ ret.value = (0 <= op.doc_id /\ op.doc_id < Len(issued))
           /\ ret.value = FALSE => Store = pre
           /\ (ret.value = TRUE /\ pre.documents[op.doc_id + 1] = None)
                  => Store = pre
           /\ ret.value = TRUE
                  => /\ documents[op.doc_id + 1] = None
                     /\ Len(vectors) = Len(pre.vectors)
                     /\ \A i \in 1..Len(documents) :
                            i # op.doc_id + 1
                                => /\ documents[i] = pre.documents[i]
                                   /\ vectors[i] = pre.vectors[i]

\* the same in-range id deleted a second time
C21_Witness ==
    /\ op.name = "delete"
    /\ ret.value = TRUE
    /\ pre.documents[op.doc_id + 1] = None
    /\ Store = pre
    /\ \E i \in 1..Len(documents) : documents[i] # None

\* C22: after clear(), whatever calls came before it, count() is 0, every
\* search returns the empty sequence and the next add returns id 0.
C22_ClearResets ==
    op.name = "clear"
        => /\ count(Store) = 0
           /\ \A query_embedding \in Queries, top_k \in 1..MaxTopK :
                  search(Store, query_embedding, top_k) = Returned(<<>>)
           /\ \A embedding \in AddVectors, document \in AddDocuments :
                  add(Store, embedding, document).ret = 0
           /\ \A embeddings \in SeqsUpTo(BatchVectors, MaxBatch) :
                  \A docs \in SeqsUpTo(BatchDocuments, MaxBatch) :
                      LET ids == add_batch(Store, embeddings, docs).ret
                      IN  ids # <<>> => ids[1] = 0

\* clear was called on a store holding a live entry and a tombstone
C22_Witness ==
    /\ op.name = "clear"
    /\ \E i \in 1..Len(pre.documents) : pre.documents[i] = None
    /\ \E i \in 1..Len(pre.documents) : pre.documents[i] # None
    /\ count(Store) = 0

\* C23: retrieve(query, top_k) returns at most top_k candidates, and after any
\* index, delete and clear calls each of them is a live entry of the index
\* with that entry's id and content: a tombstoned slot is never returned.
C23_RetrieveLiveEntries ==
    (op.name = "retrieve" /\ ret.raised = "no")
        => /\ Len(ret.value) <= op.top_k
           /\ \A i \in 1..Len(ret.value) :
                  LET id == ret.value[i].id
                  IN  /\ id \in 0..(Len(documents) - 1)
                      /\ id \notin deleted
                      /\ documents[id + 1] # None
                      /\ documents[id + 1].id = id
                      /\ documents[id + 1].content = ret.value[i].content
           /\ \A i, j \in 1..Len(ret.value) :
                  i # j => ret.value[i].id # ret.value[j].id

\* retrieve returned an entry of an index that holds a tombstone, asked for
\* more candidates than it returned
C23_Witness ==
    /\ op.name = "retrieve"
    /\ ret.raised = "no"
    /\ deleted # {}
    /\ Len(ret.value) >= 1
    /\ Len(ret.value) < op.top_k
    /\ \E i \in 1..Len(documents) : documents[i] = None

\* C24 (as claimed): after any add, add_batch, delete and clear calls, vectors
\* and documents have equal length and every document at slot i that is not a
\* tombstone carries id = i, whatever fields the caller's document held.
C24_SlotIds ==
    /\ Len(vectors) = Len(documents)
    /\ \A i \in 1..Len(documents) :
           documents[i] # None => documents[i].id = i - 1

\* what holds instead: the lengths agree, and a stored document carries its
\* slot number unless the caller's document brought an id, which it keeps
C24_SlotIdsUnlessCallerId ==
    /\ Len(vectors) = Len(documents)
    /\ \A i \in 1..Len(documents) :
           documents[i] # None
               => \/ documents[i].id = i - 1
                  \/ \E document \in AddDocuments \cup BatchDocuments :
                         /\ "id" \in DOMAIN document
                         /\ documents[i].id = document.id
    /\ (op.name = "add" /\ "id" \notin DOMAIN op.document)
           => documents[Len(documents)].id = ret.value

\* add returned a slot number for a document that is stored with another id
C24_CallerIdKept ==
    /\ op.name = "add"
    /\ "id" \in DOMAIN op.document
    /\ documents[Len(documents)].id # ret.value

----------------------------------------------------------------------------
(* Claims about LLMModel, under SpecLLM                                    *)

\* initialize ran in vllm or llamacpp mode and the backend did not load
BackendLoadFailed ==
    /\ self_loaded
    /\ self_mode \in {"vllm", "llamacpp"}
    /\ backend # "loads"

\* C25 (as claimed): if loading the configured vLLM or llama.cpp backend
\* fails during initialize(), the model falls back to mock mode: is_loaded()
\* is true and every later generate() returns a mock completion.
C25_FallbackGeneratesMock ==
    /\ (op.name = "initialize" /\ self_mode \in {"vllm", "llamacpp"}
           /\ backend # "loads")
           => self_loaded
    /\ (op.name = "generate" /\ BackendLoadFailed)
           => /\ ret.raised = "no"
              /\ ret = generate_mock(LLM, op.messages)

\* what holds instead: after the failed load is_loaded() is true and the
\* model is named "mock-llm", but mode still names the backend and generate()
\* raises on the backend that is not there
C25_FallbackLoadedGenerateRaises ==
    /\ (op.name = "initialize" /\ self_mode \in {"vllm", "llamacpp"}
           /\ backend # "loads")
           => /\ self_loaded
              /\ self_model_name = "mock-llm"
              /\ self_model = "None"
    /\ (op.name = "generate" /\ BackendLoadFailed)
           => ret.raised \in {"ModuleNotFoundError", "AttributeError",
                              "TypeError"}

\* generate raised on a model that initialize had marked loaded after the
\* backend failed to load
C25_GenerateAfterFallbackRaises ==
    /\ op.name = "generate"
    /\ BackendLoadFailed
    /\ self_model_name = "mock-llm"
    /\ ret.raised # "no"

====
